---------------------------- MODULE Spec2Model ----------------------------
(***************************************************************************)
(* CARE-AI patient risk engine (src/model.py) and the two dashboard        *)
(* widgets that read its insight (src/app.py).                             *)
(*                                                                         *)
(* Numbers.  The program computes in floating point; the model computes    *)
(* in exact decimals held as integers:                                     *)
(*   - anomaly scores and risk scores in units of 0.0001                   *)
(*     (so the threshold -0.2 is -2000 and the penalty 0.30 is 3000);      *)
(*   - sleep_hours and mood_score in tenths (7.0 hours is 70);             *)
(*   - activity_level, heart_rate, stress_level, therapy_attended as they  *)
(*     are.                                                                *)
(* A mean is never divided out: a comparison of means is cross-multiplied  *)
(* (sum/k < c  is  sum < c*k).  Binary rounding of the floats is not       *)
(* modelled.                                                               *)
(*                                                                         *)
(* The isolation forest is library code.  A fitted forest is represented   *)
(* by the one number the program reads from it: the mean of                *)
(* decision_function over the series it was fitted on.  That number is an  *)
(* input of the model (anomaly), fixed per patient at Init, as the fixed   *)
(* random_state makes it a function of the series.                         *)
(***************************************************************************)
EXTENDS Integers, Sequences, FiniteSets, TLC

VARIABLES
    pc,            \* position of the running script
    df,            \* the processed table: rows of all patients, by date
    anomaly,       \* patient_id -> mean decision score its forest yields
    todo,          \* patient ids the loop of analyze_all_patients has left
    patient_df,    \* the series of the patient at hand
    model,         \* the fitted forest of the patient at hand
    risk_score,    \* detect_concern's result
    progress,      \* has_made_progress's result
    summary,       \* summarize_changes's result
    insight,       \* generate_insight's result
    results,       \* rows appended by analyze_all_patients
    high_risk_df,  \* the immediate-attention view of __main__
    total,         \* the number __main__ prints
    status,        \* app.py: the status metric's text
    alert          \* app.py: the kind of alert box showing the insight

vars == <<pc, df, anomaly, todo, patient_df, model, risk_score, progress,
          summary, insight, results, high_risk_df, total, status, alert>>

-----------------------------------------------------------------------------
(* Bounds of the model *)

\* longest series of the single-patient pipeline
MaxLen == 10
\* longest mood series of the progress tracker's own specification
MaxMoodLen == 9
\* most patients in the table of the batch run
MaxPatients == 3

-----------------------------------------------------------------------------
(* Program constants, in the model's units *)

\* risk_score < -0.2
RiskThreshold == -2000
SleepPenalty == 3000
HrPenalty == 2500
StressPenalty == 3000
ActivityPenalty == 1500
MoodPenalty == 1000
\* iloc[-3:], tail(3)
RecentWindow == 3
\* tail(4), iloc[-8:-4]
ProgressWindow == 4
\* len(df) < 8
ProgressMinLen == 8
\* len(patient_df) < 5
BatchMinLen == 5

FlagNames == {"sleep_drop", "low_activity", "low_mood",
              "high_hr", "high_stress", "missed_therapy"}

Unset == "unset"

-----------------------------------------------------------------------------
(* Strings *)

\* Python: sub in s
Contains(s, sub) ==
    \E i \in 1..(Len(s) - Len(sub) + 1) : SubSeq(s, i, i + Len(sub) - 1) = sub

\* Python: s.startswith(prefix)
StartsWith(s, prefix) ==
    Len(s) >= Len(prefix) /\ SubSeq(s, 1, Len(prefix)) = prefix

\* Python: sep.join(parts)
RECURSIVE Join(_, _)
Join(sep, parts) ==
    IF parts = <<>> THEN ""
    ELSE IF Len(parts) = 1 THEN parts[1]
    ELSE parts[1] \o sep \o Join(sep, Tail(parts))

\* Python: True + True is 2
BoolToInt(b) == IF b THEN 1 ELSE 0

-----------------------------------------------------------------------------
(* Series and columns *)

Fields == {"sleep_hours", "activity_level", "mood_score",
           "therapy_attended", "heart_rate", "stress_level"}

\* df["c"]
Column(d, c) == [i \in 1..Len(d) |-> d[i][c]]

RECURSIVE Sum(_)
Sum(s) == IF s = <<>> THEN 0 ELSE Head(s) + Sum(Tail(s))

Max(a, b) == IF a >= b THEN a ELSE b

tail_last_only(s, k) == SubSeq(s, Max(1, Len(s)), Len(s))

\* s.iloc[-k:], s.tail(k): the last k entries, all of them when there are fewer
tail(s, k) == SubSeq(s, Max(1, Len(s) - k + 1), Len(s))

\* s.iloc[-2k:-k]: the k entries before the last k (Python clamps the slice)
before_tail(s, k) == SubSeq(s, Max(1, Len(s) - 2 * k + 1), Len(s) - k)

\* 4 * s.quantile(0.25), linear interpolation between the order statistics
\* around position (n - 1) / 4 (counted from 0); s is not empty
quantile25_x4(s) ==
    LET sorted == SortSeq(s, LAMBDA a, b : a < b)
        lo == ((Len(s) - 1) \div 4) + 1
        r == (Len(s) - 1) % 4
    IN  IF r = 0 THEN 4 * sorted[lo]
        ELSE 4 * sorted[lo] + r * (sorted[lo + 1] - sorted[lo])

-----------------------------------------------------------------------------
(* train_model, detect_concern *)

\* np.mean(model.decision_function(features)), in units of 0.0001
decision_mean(m, d) == m

\* recent_sleep < 0.7 * baseline_sleep
sleep_penalized(d) ==
    LET c == Column(d, "sleep_hours") recent == tail(c, RecentWindow)
    IN  10 * Sum(recent) * Len(c) < 7 * Sum(c) * Len(recent)

\* recent_hr > 1.15 * baseline_hr
hr_penalized(d) ==
    LET c == Column(d, "heart_rate") recent == tail(c, RecentWindow)
    IN  100 * Sum(recent) * Len(c) > 115 * Sum(c) * Len(recent)

\* recent_stress > 7
stress_penalized(d) ==
    LET recent == tail(Column(d, "stress_level"), RecentWindow)
    IN  Sum(recent) > 7 * Len(recent)

\* recent_activity < df["activity_level"].quantile(0.25)
activity_penalized(d) ==
    LET c == Column(d, "activity_level") recent == tail(c, RecentWindow)
    IN  4 * Sum(recent) < quantile25_x4(c) * Len(recent)

\* recent_mood < 0.7 * baseline_mood
mood_penalized(d) ==
    LET c == Column(d, "mood_score") recent == tail(c, RecentWindow)
    IN  10 * Sum(recent) * Len(c) < 7 * Sum(c) * Len(recent)

detect_concern_elif(m, d) ==
    LET r0 == decision_mean(m, d)
    IN  IF sleep_penalized(d) THEN r0 - SleepPenalty
        ELSE IF hr_penalized(d) THEN r0 - HrPenalty
        ELSE IF stress_penalized(d) THEN r0 - StressPenalty
        ELSE IF activity_penalized(d) THEN r0 - ActivityPenalty
        ELSE IF mood_penalized(d) THEN r0 - MoodPenalty
        ELSE r0

detect_concern(m, d) ==
    LET r0 == decision_mean(m, d)
        r1 == IF sleep_penalized(d) THEN r0 - SleepPenalty ELSE r0
        r2 == IF hr_penalized(d) THEN r1 - HrPenalty ELSE r1
        r3 == IF stress_penalized(d) THEN r2 - StressPenalty ELSE r2
        r4 == IF activity_penalized(d) THEN r3 - ActivityPenalty ELSE r3
        r5 == IF mood_penalized(d) THEN r4 - MoodPenalty ELSE r4
    IN  r5

-----------------------------------------------------------------------------
(* has_made_progress *)

has_made_progress_ge(d) ==
    IF Len(d) < ProgressMinLen THEN FALSE
    ELSE LET c == Column(d, "mood_score")
             recent == tail(c, ProgressWindow)
             previous == before_tail(c, ProgressWindow)
         IN  Sum(recent) * Len(previous) >= Sum(previous) * Len(recent)

has_made_progress(d) ==
    IF Len(d) < ProgressMinLen THEN FALSE
    ELSE LET c == Column(d, "mood_score")
             recent == tail(c, ProgressWindow)
             previous == before_tail(c, ProgressWindow)
         IN  Sum(recent) * Len(previous) > Sum(previous) * Len(recent)

-----------------------------------------------------------------------------
(* summarize_changes *)

summarize_changes(d) ==
    LET recent == tail(d, RecentWindow)
        k == Len(recent)
    IN  [f \in FlagNames |->
            CASE f = "sleep_drop" -> Sum(Column(recent, "sleep_hours")) < 40 * k
              [] f = "low_activity" ->
                    4 * Sum(Column(recent, "activity_level"))
                        < quantile25_x4(Column(d, "activity_level")) * k
              [] f = "low_mood" -> Sum(Column(recent, "mood_score")) < 20 * k
              [] f = "high_hr" -> Sum(Column(recent, "heart_rate")) > 100 * k
              [] f = "high_stress" -> Sum(Column(recent, "stress_level")) > 7 * k
              [] f = "missed_therapy" ->
                    Sum(Column(recent, "therapy_attended")) < 2]

-----------------------------------------------------------------------------
(* generate_insight *)

hard_escalation_flags_with_mood(s) ==
    BoolToInt(s["high_hr"]) + BoolToInt(s["high_stress"])
        + BoolToInt(s["missed_therapy"]) + BoolToInt(s["low_mood"])

hard_escalation_flags(s) ==
    BoolToInt(s["high_hr"]) + BoolToInt(s["high_stress"])
        + BoolToInt(s["missed_therapy"])

reasons_stress_first(s) ==
    (IF s["sleep_drop"] THEN <<"reduced sleep">> ELSE <<>>)
    \o (IF s["low_activity"] THEN <<"low activity levels">> ELSE <<>>)
    \o (IF s["low_mood"] THEN <<"persistently low mood">> ELSE <<>>)
    \o (IF s["high_stress"] THEN <<"high stress levels">> ELSE <<>>)
    \o (IF s["high_hr"] THEN <<"elevated heart rate">> ELSE <<>>)
    \o (IF s["missed_therapy"] THEN <<"missed therapy sessions">> ELSE <<>>)

reasons(s) ==
    (IF s["sleep_drop"] THEN <<"reduced sleep">> ELSE <<>>)
    \o (IF s["low_activity"] THEN <<"low activity levels">> ELSE <<>>)
    \o (IF s["low_mood"] THEN <<"persistently low mood">> ELSE <<>>)
    \o (IF s["high_hr"] THEN <<"elevated heart rate">> ELSE <<>>)
    \o (IF s["high_stress"] THEN <<"high stress levels">> ELSE <<>>)
    \o (IF s["missed_therapy"] THEN <<"missed therapy sessions">> ELSE <<>>)

reason_text(s) ==
    IF reasons(s) # <<>> THEN Join(", ", reasons(s))
    ELSE "no significant behavioral changes"

generate_insight_stable_reasons(risk, prog, s) ==
    IF risk < RiskThreshold /\ hard_escalation_flags(s) >= 1 /\ ~prog
    THEN "High risk: Patient shows " \o reason_text(s)
             \o ". Immediate nurse review recommended."
    ELSE IF risk < RiskThreshold
    THEN "Medium risk: Behavioral changes detected (" \o reason_text(s)
             \o "). Close monitoring advised."
    ELSE "Stable: Patient shows " \o reason_text(s)
             \o ". Continue routine monitoring."

generate_insight_le(risk, prog, s) ==
    IF risk <= RiskThreshold /\ hard_escalation_flags(s) >= 1 /\ ~prog
    THEN "High risk: Patient shows " \o reason_text(s)
             \o ". Immediate nurse review recommended."
    ELSE IF risk <= RiskThreshold
    THEN "Medium risk: Behavioral changes detected (" \o reason_text(s)
             \o "). Close monitoring advised."
    ELSE "Stable: No concerning behavioral changes detected. "
             \o "Continue routine monitoring."

generate_insight(risk, prog, s) ==
    IF risk < RiskThreshold /\ hard_escalation_flags(s) >= 1 /\ ~prog
    THEN "High risk: Patient shows " \o reason_text(s)
             \o ". Immediate nurse review recommended."
    ELSE IF risk < RiskThreshold
    THEN "Medium risk: Behavioral changes detected (" \o reason_text(s)
             \o "). Close monitoring advised."
    ELSE "Stable: No concerning behavioral changes detected. "
             \o "Continue routine monitoring."

-----------------------------------------------------------------------------
(* app.py: the status metric and the alert box *)

status_metric(ins) == IF Contains(ins, "High") THEN "High Risk" ELSE "Stable"

alert_box(ins) ==
    IF Contains(ins, "High risk") THEN "error"
    ELSE IF Contains(ins, "Medium risk") THEN "warning"
    ELSE "success"

-----------------------------------------------------------------------------
(* analyze_all_patients and __main__ *)

\* round(risk, 3): to a multiple of 0.001 (10 units), a half going to even
round3(x) ==
    LET q == x \div 10
        r == x % 10
    IN  IF r < 5 THEN 10 * q
        ELSE IF r > 5 THEN 10 * (q + 1)
        ELSE IF q % 2 = 0 THEN 10 * q ELSE 10 * (q + 1)

\* df["patient_id"].unique(): the distinct values, in order of first appearance
RECURSIVE unique(_)
unique(s) ==
    IF s = <<>> THEN <<>>
    ELSE LET init == unique(SubSeq(s, 1, Len(s) - 1))
             last == s[Len(s)]
         IN  IF \E i \in 1..Len(init) : init[i] = last THEN init
             ELSE Append(init, last)

\* df[df["patient_id"] == patient_id]
rows_of(d, pid) ==
    LET IsOf(row) == row["patient_id"] = pid IN SelectSeq(d, IsOf)

too_short_le(d) == Len(d) <= BatchMinLen

\* len(patient_df) < 5
too_short(d) == Len(d) < BatchMinLen

\* train_model(patient_df): the forest fitted on the patient's series
train_model(a, pid) == a[pid]

\* the row the loop body appends for one patient
result_row(pid, risk, prog, ins) ==
    [patient_id |-> pid, risk_score |-> round3(risk),
     progress |-> prog, insight |-> ins]

is_high_risk_any_risk(row) == Contains(row["insight"], "risk")

\* results_df["insight"].str.startswith("High risk")
is_high_risk(row) == StartsWith(row["insight"], "High risk")

\* .sort_values("risk_score"): ascending; the default sort is not stable, so
\* rows of equal risk_score may come out in any order
sort_values_outcomes(rows) ==
    LET n == Len(rows)
        perms == {p \in [1..n -> 1..n] : \A i, j \in 1..n : i # j => p[i] # p[j]}
        ascending == {p \in perms : \A i \in 1..(n - 1) :
                        rows[p[i]]["risk_score"] <= rows[p[i + 1]]["risk_score"]}
    IN  {[i \in 1..n |-> rows[p[i]]] : p \in ascending}

-----------------------------------------------------------------------------
(* Steps of the single-patient pipeline (app.py lines 30-80) *)

TrainModel ==
    /\ pc = "train_model"
    /\ model' = train_model(anomaly, patient_df[1]["patient_id"])
    /\ pc' = "detect_concern"
    /\ UNCHANGED <<df, anomaly, todo, patient_df, risk_score, progress,
                   summary, insight, results, high_risk_df, total, status,
                   alert>>

DetectConcern ==
    /\ pc = "detect_concern"
    /\ risk_score' = detect_concern(model, patient_df)
    /\ pc' = "has_made_progress"
    /\ UNCHANGED <<df, anomaly, todo, patient_df, model, progress, summary,
                   insight, results, high_risk_df, total, status, alert>>

HasMadeProgress ==
    /\ pc = "has_made_progress"
    /\ progress' = has_made_progress(patient_df)
    /\ pc' = "summarize_changes"
    /\ UNCHANGED <<df, anomaly, todo, patient_df, model, risk_score, summary,
                   insight, results, high_risk_df, total, status, alert>>

SummarizeChanges ==
    /\ pc = "summarize_changes"
    /\ summary' = summarize_changes(patient_df)
    /\ pc' = "generate_insight"
    /\ UNCHANGED <<df, anomaly, todo, patient_df, model, risk_score, progress,
                   insight, results, high_risk_df, total, status, alert>>

GenerateInsight ==
    /\ pc = "generate_insight"
    /\ insight' = generate_insight(risk_score, progress, summary)
    /\ pc' = "status_metric"
    /\ UNCHANGED <<df, anomaly, todo, patient_df, model, risk_score, progress,
                   summary, results, high_risk_df, total, status, alert>>

StatusMetric ==
    /\ pc = "status_metric"
    /\ status' = status_metric(insight)
    /\ pc' = "alert_box"
    /\ UNCHANGED <<df, anomaly, todo, patient_df, model, risk_score, progress,
                   summary, insight, results, high_risk_df, total, alert>>

AlertBox ==
    /\ pc = "alert_box"
    /\ alert' = alert_box(insight)
    /\ pc' = "done"
    /\ UNCHANGED <<df, anomaly, todo, patient_df, model, risk_score, progress,
                   summary, insight, results, high_risk_df, total, status>>

-----------------------------------------------------------------------------
(* Steps of the batch run (model.py lines 189-233) *)

StartAnalysis ==
    /\ pc = "analyze_all_patients"
    /\ results' = <<>>
    /\ todo' = unique(Column(df, "patient_id"))
    /\ pc' = "loop"
    /\ UNCHANGED <<df, anomaly, patient_df, model, risk_score, progress,
                   summary, insight, high_risk_df, total, status, alert>>

\* one pass of the loop body for a patient with too few records: continue
LoopSkip ==
    /\ pc = "loop"
    /\ todo # <<>>
    /\ LET pid == Head(todo)
           pdf == rows_of(df, pid)
       IN  /\ too_short(pdf)
           /\ patient_df' = pdf
    /\ todo' = Tail(todo)
    /\ UNCHANGED <<pc, df, anomaly, model, risk_score, progress, summary,
                   insight, results, high_risk_df, total, status, alert>>

\* one pass of the loop body for a patient with enough records
LoopAssess ==
    /\ pc = "loop"
    /\ todo # <<>>
    /\ LET pid == Head(todo)
           pdf == rows_of(df, pid)
           m == train_model(anomaly, pid)
           risk == detect_concern(m, pdf)
           prog == has_made_progress(pdf)
           s == summarize_changes(pdf)
           ins == generate_insight(risk, prog, s)
       IN  /\ ~too_short(pdf)
           /\ patient_df' = pdf
           /\ model' = m
           /\ risk_score' = risk
           /\ progress' = prog
           /\ summary' = s
           /\ insight' = ins
           /\ results' = Append(results, result_row(pid, risk, prog, ins))
    /\ todo' = Tail(todo)
    /\ UNCHANGED <<pc, df, anomaly, high_risk_df, total, status, alert>>

\* the loop is over: return pd.DataFrame(results)
ReturnResults ==
    /\ pc = "loop"
    /\ todo = <<>>
    /\ pc' = "high_risk_view"
    /\ UNCHANGED <<df, anomaly, todo, patient_df, model, risk_score, progress,
                   summary, insight, results, high_risk_df, total, status,
                   alert>>

HighRiskView ==
    /\ pc = "high_risk_view"
    /\ high_risk_df' \in sort_values_outcomes(SelectSeq(results, is_high_risk))
    /\ pc' = "print_total"
    /\ UNCHANGED <<df, anomaly, todo, patient_df, model, risk_score, progress,
                   summary, insight, results, total, status, alert>>

PrintTotal ==
    /\ pc = "print_total"
    /\ total' = Len(high_risk_df)
    /\ pc' = "done"
    /\ UNCHANGED <<df, anomaly, todo, patient_df, model, risk_score, progress,
                   summary, insight, results, high_risk_df, status, alert>>

-----------------------------------------------------------------------------
(* Inputs *)

Record(pid, date, sleep, activity, mood, therapy, hr, stress) ==
    [patient_id |-> pid, date |-> date, sleep_hours |-> sleep,
     activity_level |-> activity, mood_score |-> mood,
     therapy_attended |-> therapy, heart_rate |-> hr, stress_level |-> stress]

\* the measurements of one day, without patient and date
Day(sleep, activity, mood, therapy, hr, stress) ==
    [sleep_hours |-> sleep, activity_level |-> activity, mood_score |-> mood,
     therapy_attended |-> therapy, heart_rate |-> hr, stress_level |-> stress]

\* sleep 7.0, activity 5, mood 3.5, therapy attended, heart rate 70, stress 3
Calm == Day(70, 5, 35, 1, 70, 3)
\* sleep 2.0, activity 2, mood 1.5, therapy missed, heart rate 130, stress 9
Frail == Day(20, 2, 15, 0, 130, 9)
\* a calm day but for heart rate 130, stress 9 and a missed therapy session
Crisis == Day(70, 5, 35, 0, 130, 9)

\* every day that takes each measurement from Calm or from Frail
Days == {Day(sl, ac, mo, th, hr, st) :
            sl \in {70, 20}, ac \in {5, 2}, mo \in {35, 15},
            th \in {1, 0}, hr \in {70, 130}, st \in {3, 9}}

\* a series of n dated records of patient pid: n - t days `base`, then t
\* days `recent`
Series(pid, n, base, recent, t) ==
    [i \in 1..n |->
        LET d == IF i <= n - t THEN base ELSE recent
        IN  Record(pid, i, d["sleep_hours"], d["activity_level"],
                   d["mood_score"], d["therapy_attended"], d["heart_rate"],
                   d["stress_level"])]

\* a series of calm days but for the given mood scores
MoodSeries(pid, moods) ==
    [i \in 1..Len(moods) |-> Record(pid, i, 70, 5, moods[i], 1, 70, 3)]

\* the table process_data returns for the given series (patient -> series):
\* sorted by date, the rows of one date in the order of the patients
TableOf(S, np) ==
    LET DayRows(d) ==
            LET F[p \in 0..np] ==
                    IF p = 0 THEN <<>>
                    ELSE IF d <= Len(S[p]) THEN Append(F[p - 1], S[p][d])
                    ELSE F[p - 1]
            IN  F[np]
        last == CHOOSE d \in {Len(S[p]) : p \in 1..np} :
                    \A p \in 1..np : Len(S[p]) <= d
        G[d \in 0..last] == IF d = 0 THEN <<>> ELSE G[d - 1] \o DayRows(d)
    IN  G[last]

\* mean decision scores a fitted forest may yield, in units of 0.0001
RawScores == {-2500, -1000, 0, 1005}
\* those of the batch run
BatchScores == {-2504, 1005}
\* mood scores of the progress tracker's series, in tenths
MoodInputs == {15, 25, 35}
\* risk scores around the threshold and far from it, in units of 0.0001
RiskInputs == {-9000, -2500, -2001, -2000, -1999, 0, 1500}

Idle ==
    /\ df = <<>> /\ todo = <<>> /\ results = <<>> /\ high_risk_df = <<>>
    /\ total = Unset /\ status = Unset /\ alert = Unset

-----------------------------------------------------------------------------
(* The single-patient pipeline, as app.py runs it on the selected patient *)

Init ==
    /\ pc = "train_model"
    /\ \E n \in 1..MaxLen, base \in {Calm, Frail}, recent \in Days, t \in 0..3 :
          /\ t <= n
          /\ patient_df = Series(1, n, base, recent, t)
    /\ anomaly \in [{1} -> RawScores]
    /\ model = Unset /\ risk_score = Unset /\ progress = Unset
    /\ summary = Unset /\ insight = Unset
    /\ Idle

Next ==
    \/ TrainModel
    \/ DetectConcern
    \/ HasMadeProgress
    \/ SummarizeChanges
    \/ GenerateInsight
    \/ StatusMetric
    \/ AlertBox

Spec == Init /\ [][Next]_vars

-----------------------------------------------------------------------------
(* The classifier and the two widgets on their own: every risk score of    *)
(* RiskInputs, every progress value and every summary.                     *)

InitInsight ==
    /\ pc = "generate_insight"
    /\ risk_score \in RiskInputs
    /\ progress \in BOOLEAN
    /\ summary \in [FlagNames -> BOOLEAN]
    /\ anomaly = <<>> /\ patient_df = <<>> /\ model = Unset /\ insight = Unset
    /\ Idle

NextInsight == GenerateInsight \/ StatusMetric \/ AlertBox

SpecInsight == InitInsight /\ [][NextInsight]_vars

-----------------------------------------------------------------------------
(* The progress tracker on its own: every mood series up to MaxMoodLen *)

MoodSeqs == UNION {[1..n -> MoodInputs] : n \in 0..MaxMoodLen}

InitProgress ==
    /\ pc = "has_made_progress"
    /\ \E moods \in MoodSeqs : patient_df = MoodSeries(1, moods)
    /\ anomaly = <<>> /\ model = Unset /\ risk_score = Unset
    /\ progress = Unset /\ summary = Unset /\ insight = Unset
    /\ Idle

NextProgress == HasMadeProgress

SpecProgress == InitProgress /\ [][NextProgress]_vars

-----------------------------------------------------------------------------
(* The batch run: up to MaxPatients patients, each with a series of one    *)
(* record fewer than, exactly, or one more than the records the loop asks  *)
(* for                                                                     *)

BatchLens == {BatchMinLen - 1, BatchMinLen, BatchMinLen + 1}

InitBatch ==
    /\ pc = "analyze_all_patients"
    /\ \E np \in 1..MaxPatients :
          \E len \in [1..np -> BatchLens], recent \in [1..np -> {Calm, Crisis}] :
             /\ df = TableOf([p \in 1..np |->
                                 Series(p, len[p], Calm, recent[p], 3)], np)
             /\ anomaly \in [1..np -> BatchScores]
    /\ todo = <<>> /\ results = <<>> /\ high_risk_df = <<>>
    /\ patient_df = <<>> /\ model = Unset /\ risk_score = Unset
    /\ progress = Unset /\ summary = Unset /\ insight = Unset
    /\ total = Unset /\ status = Unset /\ alert = Unset

NextBatch ==
    \/ StartAnalysis
    \/ LoopSkip
    \/ LoopAssess
    \/ ReturnResults
    \/ HighRiskView
    \/ PrintTotal

SpecBatch == InitBatch /\ [][NextBatch]_vars

-----------------------------------------------------------------------------
(* Vocabulary of the properties *)

\* the tier an insight announces
TierOf(ins) ==
    IF StartsWith(ins, "High risk") THEN "High"
    ELSE IF StartsWith(ins, "Medium risk") THEN "Medium"
    ELSE IF StartsWith(ins, "Stable") THEN "Stable"
    ELSE "none"

HardFlags == {"high_hr", "high_stress", "missed_therapy"}

NoChangesText == "no significant behavioral changes"

StableText ==
    "Stable: No concerning behavioral changes detected. Continue routine monitoring."

InsightMade == pc \in {"status_metric", "alert_box", "done"}

-----------------------------------------------------------------------------
(* C1: generate_insight classifies by first match: High exactly when       *)
(* risk_score < -0.2 and at least one of high_hr, high_stress,             *)
(* missed_therapy is true and progress is false; Medium exactly when       *)
(* risk_score < -0.2 and the High condition fails; Stable exactly when     *)
(* risk_score >= -0.2, so a score of exactly -0.2 is Stable.               *)
C1_FirstMatch ==
    InsightMade =>
        LET high == /\ risk_score < -2000
                    /\ \E f \in HardFlags : summary[f]
                    /\ ~progress
        IN  /\ (TierOf(insight) = "High") <=> high
            /\ (TierOf(insight) = "Medium") <=> (risk_score < -2000 /\ ~high)
            /\ (TierOf(insight) = "Stable") <=> (risk_score >= -2000)

\* a score of exactly -0.2 with a hard flag and no progress is Stable
C1_Witness ==
    /\ InsightMade
    /\ risk_score = -2000
    /\ summary["high_hr"]
    /\ ~progress
    /\ TierOf(insight) = "Stable"

(* C2: a summary whose high_hr, high_stress and missed_therapy are all     *)
(* false is never classified High, whatever sleep_drop, low_activity and   *)
(* low_mood are and however negative the score; with only low_mood true,   *)
(* risk_score < -0.2 and no progress the insight is Medium.                *)
C2_NoHardFlagNeverHigh ==
    InsightMade =>
        /\ (\A f \in HardFlags : ~summary[f]) => TierOf(insight) # "High"
        /\ ( /\ \A f \in FlagNames : summary[f] <=> (f = "low_mood")
             /\ risk_score < -2000
             /\ ~progress ) => TierOf(insight) = "Medium"

\* only low_mood, a score far below the threshold, no progress: Medium
C2_Witness ==
    /\ InsightMade
    /\ \A f \in FlagNames : summary[f] <=> (f = "low_mood")
    /\ risk_score = -9000
    /\ ~progress
    /\ TierOf(insight) = "Medium"

-----------------------------------------------------------------------------
\* the summary flags in the order the explanation lists them
FlagOrder == <<"sleep_drop", "low_activity", "low_mood",
               "high_hr", "high_stress", "missed_therapy">>

PhraseOf ==
    [sleep_drop |-> "reduced sleep", low_activity |-> "low activity levels",
     low_mood |-> "persistently low mood", high_hr |-> "elevated heart rate",
     high_stress |-> "high stress levels",
     missed_therapy |-> "missed therapy sessions"]

\* the phrases of the true flags, in FlagOrder, with ", " between them
ListedText(s) ==
    LET F[i \in 0..Len(FlagOrder)] ==
            IF i = 0 THEN ""
            ELSE IF ~s[FlagOrder[i]] THEN F[i - 1]
            ELSE IF F[i - 1] = "" THEN PhraseOf[FlagOrder[i]]
            ELSE F[i - 1] \o ", " \o PhraseOf[FlagOrder[i]]
    IN  F[Len(FlagOrder)]

ExpectedReasons(s) ==
    IF \A f \in FlagNames : ~s[f] THEN NoChangesText ELSE ListedText(s)

(* C9: in every High and Medium insight the reasons listed are exactly     *)
(* the summary flags that are true, each once, in the order sleep_drop,    *)
(* low_activity, low_mood, high_hr, high_stress, missed_therapy, joined    *)
(* with commas; with no flag true the reason text is "no significant       *)
(* behavioral changes".                                                    *)
C9_ReasonsListed ==
    InsightMade =>
        /\ TierOf(insight) = "High" =>
              insight = "High risk: Patient shows " \o ExpectedReasons(summary)
                            \o ". Immediate nurse review recommended."
        /\ TierOf(insight) = "Medium" =>
              insight = "Medium risk: Behavioral changes detected ("
                            \o ExpectedReasons(summary)
                            \o "). Close monitoring advised."

\* a High insight listing all six reasons
C9_Witness ==
    /\ InsightMade
    /\ \A f \in FlagNames : summary[f]
    /\ TierOf(insight) = "High"
    /\ Contains(insight, "elevated heart rate, high stress levels")

-----------------------------------------------------------------------------
(* C10: the dashboard's status metric and its alert box show the same      *)
(* tier: an insight the alert box shows as a warning (Medium) or as a      *)
(* success (Stable) is shown accordingly by the status metric, and a       *)
(* Medium-risk insight is never shown as "Stable".                         *)
C10_WidgetsAgree ==
    pc = "done" =>
        /\ (status = "High Risk") <=> (alert = "error")
        /\ (status = "Stable") <=> (alert = "success")

-----------------------------------------------------------------------------
(* C3: has_made_progress is false for every series of fewer than 8         *)
(* records; for 8 or more it is true exactly when the mean mood_score of   *)
(* the last 4 records is strictly greater than the mean of the 4 records   *)
(* before them, so equal means give false.                                 *)
C3_ProgressStrict ==
    pc = "summarize_changes" =>
        LET n == Len(patient_df)
            mood(i) == patient_df[i]["mood_score"]
        IN  IF n < 8 THEN progress = FALSE
            ELSE progress =
                    (mood(n - 3) + mood(n - 2) + mood(n - 1) + mood(n)
                        > mood(n - 7) + mood(n - 6) + mood(n - 5) + mood(n - 4))

\* 8 or more records, two different windows of equal mean: no progress
C3_Witness ==
    /\ pc = "summarize_changes"
    /\ Len(patient_df) >= 8
    /\ LET n == Len(patient_df)
           mood(i) == patient_df[i]["mood_score"]
       IN  /\ mood(n) # mood(n - 4)
           /\ mood(n - 3) + mood(n - 2) + mood(n - 1) + mood(n)
                = mood(n - 7) + mood(n - 6) + mood(n - 5) + mood(n - 4)
    /\ progress = FALSE

-----------------------------------------------------------------------------
PenaltyNames == {"sleep", "heart_rate", "stress", "activity", "mood"}

\* the penalty conditions a series triggers
Triggered(d) ==
    {c \in PenaltyNames :
        CASE c = "sleep" -> sleep_penalized(d)
          [] c = "heart_rate" -> hr_penalized(d)
          [] c = "stress" -> stress_penalized(d)
          [] c = "activity" -> activity_penalized(d)
          [] c = "mood" -> mood_penalized(d)}

\* 0.30, 0.25, 0.30, 0.15, 0.10 in units of 0.0001
PenaltyOf ==
    [sleep |-> 3000, heart_rate |-> 2500, stress |-> 3000,
     activity |-> 1500, mood |-> 1000]

RECURSIVE PenaltySum(_)
PenaltySum(cs) ==
    IF cs = {} THEN 0
    ELSE LET c == CHOOSE x \in cs : TRUE
         IN  PenaltyOf[c] + PenaltySum(cs \ {c})

\* series to compare with: ten days, the last three taken from Days; between
\* them they trigger each of the 32 sets of conditions
Panel == {Series(1, 10, Calm, r, 3) : r \in Days}

PanelTriggered == [d \in Panel |-> Triggered(d)]

PanelRisk == [m \in RawScores |-> [d \in Panel |-> detect_concern(m, d)]]

(* C5: detect_concern returns the mean anomaly score minus the sum of the  *)
(* penalties of the conditions that hold (sleep 0.30, heart rate 0.25,     *)
(* stress 0.30, activity 0.15, mood 0.10), each tested independently and   *)
(* with no lower clamp; so, for the same mean anomaly score, a series that *)
(* triggers a superset of the conditions another triggers gets a lower or  *)
(* equal risk_score, strictly lower when the superset is proper.           *)
C5_PenaltiesStack ==
    pc = "has_made_progress" =>
        LET mine == Triggered(patient_df)
        IN  /\ risk_score = model - PenaltySum(mine)
            /\ \A d \in Panel :
                  LET theirs == PanelTriggered[d]
                      other == PanelRisk[model][d]
                  IN  /\ mine \subseteq theirs => other <= risk_score
                      /\ (mine \subseteq theirs /\ mine # theirs)
                            => other < risk_score
                      /\ theirs \subseteq mine => risk_score <= other
                      /\ (theirs \subseteq mine /\ mine # theirs)
                            => risk_score < other

\* all five conditions hold at once and the score falls 1.10 below the mean
\* score, far under any clamp at the forest's range
C5_Witness ==
    /\ pc = "has_made_progress"
    /\ Triggered(patient_df) = PenaltyNames
    /\ risk_score = model - 11000
    /\ risk_score < -10000

-----------------------------------------------------------------------------
(* C8: for a series of 1 or 2 records detect_concern and summarize_changes *)
(* compute every trailing-window value over all the records there are (a   *)
(* mean over fewer points, for missed_therapy a sum over fewer points),    *)
(* baselines and the 25th percentile use the whole series, and both        *)
(* return a value.                                                         *)
C8_ShortSeries ==
    (pc \in {"generate_insight", "status_metric", "alert_box", "done"}
        /\ Len(patient_df) \in {1, 2}) =>
        LET n == Len(patient_df)
            whole(c) == Sum(Column(patient_df, c))
            q4 == quantile25_x4(Column(patient_df, "activity_level"))
            lowAct == 4 * whole("activity_level") < q4 * n
            \* a mean m of non-negative values is never < 0.7 m nor > 1.15 m
            expected == model
                - (IF whole("stress_level") > 7 * n THEN 3000 ELSE 0)
                - (IF lowAct THEN 1500 ELSE 0)
        IN  /\ risk_score = expected
            /\ summary = [f \in FlagNames |->
                  CASE f = "sleep_drop" -> whole("sleep_hours") < 40 * n
                    [] f = "low_activity" -> lowAct
                    [] f = "low_mood" -> whole("mood_score") < 20 * n
                    [] f = "high_hr" -> whole("heart_rate") > 100 * n
                    [] f = "high_stress" -> whole("stress_level") > 7 * n
                    [] f = "missed_therapy" -> whole("therapy_attended") < 2]

\* two records, a calm day and then a frail one: the means over both days
\* raise no flag that the frail day alone would raise, and one attended
\* session out of two counts as missed therapy
C8_Witness ==
    /\ pc = "done"
    /\ Len(patient_df) = 2
    /\ patient_df[1]["stress_level"] = 3
    /\ patient_df[2]["stress_level"] = 9
    /\ patient_df[1]["therapy_attended"] = 1
    /\ patient_df[2]["therapy_attended"] = 0
    /\ ~summary["high_stress"]
    /\ summary["missed_therapy"]
    /\ risk_score = model

-----------------------------------------------------------------------------
AllFlagsFalse == \A f \in FlagNames : ~summary[f]

\* the series of the stable scenario: ten days, all calm
CalmTenDays ==
    /\ Len(patient_df) = 10
    /\ \A i \in 1..10 : \A c \in Fields : patient_df[i][c] = Calm[c]

(* C6, as stated: when all six deviation flags are false and the tier is   *)
(* Stable (as for ten calm days), the insight contains "no significant     *)
(* behavioral changes".                                                    *)
C6_StableSaysNoChanges ==
    (InsightMade /\ AllFlagsFalse /\ TierOf(insight) = "Stable")
        => Contains(insight, NoChangesText)

(* C6, amended: when all six deviation flags are false and the tier is     *)
(* Stable, the insight is the fixed Stable text, which does not contain    *)
(* "no significant behavioral changes"; with all flags false that phrase   *)
(* is in the insight exactly when the tier is Medium.                      *)
C6_StableFixedText ==
    (InsightMade /\ AllFlagsFalse) =>
        /\ TierOf(insight) \in {"Stable", "Medium"}
        /\ TierOf(insight) = "Stable" =>
              /\ insight = StableText
              /\ ~Contains(insight, NoChangesText)
        /\ TierOf(insight) = "Medium" => Contains(insight, NoChangesText)

\* ten calm days, a mean decision score of 0: all flags false, Stable
C6_Witness ==
    /\ pc = "done"
    /\ CalmTenDays
    /\ model = 0
    /\ AllFlagsFalse
    /\ TierOf(insight) = "Stable"

-----------------------------------------------------------------------------
\* the rows of the table that belong to patient pid
OwnRows(pid) == {i \in 1..Len(df) : df[i]["patient_id"] = pid}

Patients == {df[i]["patient_id"] : i \in 1..Len(df)}

\* the patient's own series, in the order of the table
OwnSeries(pid) ==
    LET own == OwnRows(pid)
        Nth[k \in 1..Cardinality(own)] ==
            CHOOSE i \in own : Cardinality({j \in own : j <= i}) = k
    IN  [k \in 1..Cardinality(own) |-> df[Nth[k]]]

\* what the pipeline makes of one series on its own
AssessmentOf(pid) ==
    LET d == OwnSeries(pid)
        risk == detect_concern(anomaly[pid], d)
        prog == has_made_progress(d)
    IN  [patient_id |-> pid, risk_score |-> round3(risk), progress |-> prog,
         insight |-> generate_insight(risk, prog, summarize_changes(d))]

(* C4: analyze_all_patients returns exactly one assessment for each        *)
(* distinct patient_id with 5 or more records and none for one with        *)
(* fewer; a short patient is passed over without an error, and the         *)
(* assessments of the other patients are what their own series give.       *)
C4_OnePerLongPatient ==
    pc = "done" =>
        /\ \A pid \in Patients :
              Cardinality({i \in 1..Len(results) :
                              results[i]["patient_id"] = pid})
                 = IF Cardinality(OwnRows(pid)) >= 5 THEN 1 ELSE 0
        /\ \A i \in 1..Len(results) :
              /\ results[i]["patient_id"] \in Patients
              /\ results[i] = AssessmentOf(results[i]["patient_id"])

\* a patient with exactly 4 records comes first and is absent, the next one
\* has exactly 5 and is assessed
C4_Witness ==
    /\ pc = "done"
    /\ Cardinality(OwnRows(1)) = 4
    /\ Cardinality(OwnRows(2)) = 5
    /\ Len(results) >= 1
    /\ results[1]["patient_id"] = 2
    /\ \A i \in 1..Len(results) : results[i]["patient_id"] # 1

-----------------------------------------------------------------------------
HighResults == {i \in 1..Len(results) : TierOf(results[i]["insight"]) = "High"}

=============================================================================
